---- MODULE Spec2Model ----
(***************************************************************************)
(* A model of the RAG service: the chunk builder (create_document_chunks), *)
(* the process-wide cache of service.py (_vector_store, _rag_chain,        *)
(* _embeddings, _current_project_id), the persisted index directory        *)
(* rag_db/<project_id>, and the two HTTP handlers of rag_api.py, which the  *)
(* single uvicorn event loop runs one at a time.                           *)
(***************************************************************************)
EXTENDS FiniteSets, Integers, Sequences, TLC

\* ------------------------------------------------------------------------
\* Bounds of the model
\* ------------------------------------------------------------------------
MaxReqs == 2
MaxModules == 2
MaxStories == 2
MaxFeatures == 1

\* Program constant: search_kwargs={"k": 3}
TopK == 3

\* An optional value is <<>> (None) or <<v>>.
None == "None"
NoneV == <<>>
Some(v) == <<v>>
Get(o) == o[1]

Projects == {"A", "B"}

\* project_id is any string of the request. One that is a path names a directory
\* by another spelling: "A/." is the directory of project "A".
Alias == "A/."
ProjectIds == Projects \cup {Alias}

\* db_path = os.path.join(DB_DIR, project_id), as the directory the path leads to
db_path(project_id) == IF project_id = Alias THEN "A" ELSE project_id
Reqs == 1..MaxReqs

\* ------------------------------------------------------------------------
\* ProjectData: the request's JSON object
\* ------------------------------------------------------------------------
\* A scalar is a string, the key being absent, or JSON null.
Absent == "<absent>"
Null == "<null>"

\* A list or an object is tagged: null, empty (the key absent, [] or {}:
\* dict.get's default and the value itself are both falsy), or its content.
PyNull == [t |-> "null"]
PyEmpty == [t |-> "empty"]
PyAbsent == [t |-> "absent"]
PyList(s) == IF s = <<>> THEN PyEmpty ELSE [t |-> "list", v |-> s]
PyDict(d) == [t |-> "dict", v |-> d]

\* Python truthiness of a list or an object.
Truthy(x) == x.t \in {"list", "dict"}

\* The items of d.get(key, []) when it is iterated or measured.
Items(x) == IF x.t = "list" THEN x.v ELSE <<>>

\* d.get(key): None for an absent key.
PyGet(v) == IF v = Absent THEN Null ELSE v

\* d.get(key, default)
PyGetOr(v, default) == IF v = Absent THEN default ELSE v

ModuleNames == <<"Auth", "Catalog", "Orders", "Cart">>

ModuleIds == <<"m1", "m2", "m3", "m4">>

Module(i) == [id |-> ModuleIds[i], module_name |-> ModuleNames[i]]

\* A project record with its first n modules and no other facet.
ProjectDataWith(n) ==
  [modules |-> PyList([i \in 1..n |-> Module(i)]),
   user_stories |-> PyEmpty,
   features |-> PyEmpty,
   project |-> PyEmpty,
   project_information |-> PyEmpty,
   business_rules |-> PyEmpty,
   tech_stack |-> PyEmpty,
   uiux_guidelines |-> PyEmpty]

DataSet == {ProjectDataWith(n) : n \in 0..MaxModules}

\* ------------------------------------------------------------------------
\* create_document_chunks(project_data)
\* ------------------------------------------------------------------------
\* Section 1: the module roster chunk.
ModuleListChunk(modules) ==
  [source |-> "Module List Overview",
   type |-> "module_list",
   total |-> Len(modules),
   names |-> [i \in 1..Len(modules) |-> PyGetOr(modules[i].module_name, "Unnamed")]]

\* ', '.join(module_names) raises TypeError on a None among the names.
ModuleListRaises(modules) ==
  \E i \in 1..Len(modules) : modules[i].module_name = Null

\* Section 2: the story roster chunk.
StoriesListChunk(user_stories) ==
  [source |-> "User Stories List",
   type |-> "stories_list",
   total |-> Len(user_stories),
   titles |-> [i \in 1..Len(user_stories) |->
                 PyGetOr(user_stories[i].title, "Unnamed Story")]]

\* Section 3: the feature roster chunk.
FeaturesListChunk(features) ==
  [source |-> "Features List",
   type |-> "features_list",
   total |-> Len(features),
   titles |-> [i \in 1..Len(features) |->
                 PyGetOr(features[i].title, "Unnamed Feature")]]

\* story_features = [f for f in features if f.get('user_story_id') == story_id]
StoryFeatures(story, features) ==
  LET Match(f) == PyGet(f.user_story_id) = PyGet(story.id)
  IN  SelectSeq(features, Match)

\* Every story under every module.
ModuleStoriesUnfiltered(module, user_stories) == user_stories

\* module_stories = [us for us in user_stories if us.get('module_id') == module_id]
ModuleStories(module, user_stories) ==
  LET Mine(us) == PyGet(us.module_id) = PyGet(module.id)
  IN  SelectSeq(user_stories, Mine)

\* The detail chunk without the "None defined yet" line.
ModuleDetailChunkBare(module, user_stories, features) ==
  [source |-> "Module Detail",
   module_name |-> PyGetOr(module.module_name, "Unnamed Module"),
   module_id |-> PyGet(module.id),
   stories |-> <<>>,
   sentinel |-> FALSE]

\* Section 4: one detail chunk per module.
ModuleDetailChunk(module, user_stories, features) ==
  LET module_stories == ModuleStories(module, user_stories)
  IN  [source |-> "Module Detail",
       module_name |-> PyGetOr(module.module_name, "Unnamed Module"),
       module_id |-> PyGet(module.id),
       stories |-> [i \in 1..Len(module_stories) |->
                      [title |-> PyGetOr(module_stories[i].title, "N/A"),
                       features |->
                         LET fs == StoryFeatures(module_stories[i], features)
                         IN  [j \in 1..Len(fs) |-> PyGetOr(fs[j].title, "N/A")]]],
       sentinel |-> (module_stories = <<>>)]

\* "for module in modules" raises on None; so do the comprehensions over
\* user_stories (once per module) and over features (once per listed story).
ModuleDetailsRaise(project_data) ==
  \/ project_data.modules.t = "null"
  \/ /\ Truthy(project_data.modules)
     /\ \/ project_data.user_stories.t = "null"
        \/ /\ project_data.features.t = "null"
           /\ \E i \in 1..Len(project_data.modules.v) :
                ModuleStories(project_data.modules.v[i],
                              Items(project_data.user_stories)) # <<>>

\* Section 5: the project overview chunk.
OverviewChunk(project, project_info) ==
  [source |-> "Project Overview",
   type |-> "overview",
   name |-> IF Truthy(project) THEN PyGetOr(project.v.name, "N/A") ELSE "",
   vision |-> IF Truthy(project_info)
                THEN PyGetOr(project_info.v.vision, "N/A") ELSE ""]

\* The rule categories, at the root of business_rules or under its config.
RuleCategories(business_rules) ==
  IF business_rules.v.categories.t # "absent"
    THEN Items(business_rules.v.categories)
    ELSE IF business_rules.v.config.t = "dict"
      THEN Items(business_rules.v.config.v.categories)
      ELSE <<>>

\* config = business_rules.get("config", {}); config.get(...) raises on None.
RuleCategoriesRaise(business_rules) ==
  /\ business_rules.v.categories.t = "absent"
  /\ business_rules.v.config.t = "null"

\* Section 6: the global business rules chunk.
BusinessRulesChunk(business_rules) ==
  LET categories == RuleCategories(business_rules)
  IN  [source |-> "Global Business Rules",
       type |-> "global_rules",
       total |-> Len(categories),
       rules |-> [i \in 1..Len(categories) |->
                    [name |-> PyGetOr(categories[i].name, "Rule"),
                     applicable |->
                       IF Truthy(categories[i].applicableTo)
                         THEN categories[i].applicableTo.v
                         ELSE <<"All modules">>]]]

\* actual_stack = tech_stack.get('tech_stack', tech_stack); only a dict is
\* listed.
ActualStack(tech_stack) ==
  IF tech_stack.v.tech_stack.t = "absent"
    THEN tech_stack.v.items
    ELSE IF tech_stack.v.tech_stack.t = "dict"
      THEN tech_stack.v.tech_stack.v
      ELSE <<>>

\* Section 7: the tech stack chunk.
TechStackChunk(tech_stack) ==
  [source |-> "Tech Stack",
   type |-> "technology",
   stack |-> ActualStack(tech_stack)]

\* Section 8: the UI/UX chunk.
UiuxChunk(uiux) ==
  [source |-> "UI/UX Guidelines",
   type |-> "design",
   guidelines |-> PyGetOr(uiux.v.guidelines, "No guidelines defined yet")]

\* uiux_content += guidelines raises TypeError on None.
UiuxRaises(uiux) == uiux.v.guidelines = Null

\* The inputs on which create_document_chunks raises instead of returning.
ChunksRaise(project_data) ==
  \/ /\ Truthy(project_data.modules)
     /\ ModuleListRaises(project_data.modules.v)
  \/ ModuleDetailsRaise(project_data)
  \/ /\ Truthy(project_data.business_rules)
     /\ RuleCategoriesRaise(project_data.business_rules)
  \/ /\ Truthy(project_data.uiux_guidelines)
     /\ UiuxRaises(project_data.uiux_guidelines)

\* The documents it returns otherwise, in the order the sections append them.
create_document_chunks(project_data) ==
  LET modules == project_data.modules
      user_stories == project_data.user_stories
      features == project_data.features
      project_info == project_data.project_information
      project == project_data.project
      business_rules == project_data.business_rules
      tech_stack == project_data.tech_stack
      uiux == project_data.uiux_guidelines
  IN  (IF Truthy(modules) THEN <<ModuleListChunk(modules.v)>> ELSE <<>>)
      \o (IF Truthy(user_stories) THEN <<StoriesListChunk(user_stories.v)>> ELSE <<>>)
      \o (IF Truthy(features) THEN <<FeaturesListChunk(features.v)>> ELSE <<>>)
      \o [i \in 1..Len(Items(modules)) |->
            ModuleDetailChunk(modules.v[i], Items(user_stories), Items(features))]
      \o (IF Truthy(project_info) \/ Truthy(project)
            THEN <<OverviewChunk(project, project_info)>> ELSE <<>>)
      \o (IF Truthy(business_rules) THEN <<BusinessRulesChunk(business_rules)>> ELSE <<>>)
      \o (IF Truthy(tech_stack) THEN <<TechStackChunk(tech_stack)>> ELSE <<>>)
      \o (IF Truthy(uiux) THEN <<UiuxChunk(uiux)>> ELSE <<>>)

\* ------------------------------------------------------------------------
\* State
\* ------------------------------------------------------------------------
VARIABLES
  _vector_store,        \* NoneV or Some([owner, chunks]): the resident FAISS store
  _rag_chain,           \* NoneV or Some([retriever]): the chain and the store its retriever holds
  _embeddings,          \* 0 (None) or the handle of the loaded embedding model
  _current_project_id,  \* None or a project id
  disk,                 \* rag_db/<project_id>: NoneV, or Some([valid, chunks])
  env,                  \* OPENROUTER_API_KEY present, RAG_FORCE_REBUILD
  reqs,                 \* the HTTP requests being handled: arguments, position, locals
  last_call,            \* history: the call that returned last, until the next one starts
  initialized,          \* history: the projects an initialize call of this process succeeded for
  data,                 \* the chunk builder alone: its argument
  documents             \* the chunk builder alone: NoneV before the call, then its outcome

vars == <<_vector_store, _rag_chain, _embeddings, _current_project_id,
          disk, env, reqs, last_call, initialized, data, documents>>

chunker == <<data, documents>>

cache == <<_vector_store, _rag_chain, _embeddings, _current_project_id>>

EnvSet == [api_key : BOOLEAN, force_rebuild : BOOLEAN]

\* What a call remembers of the initialize call that returned right before it.
NoInit == [project_id |-> None, project_data |-> ProjectDataWith(0),
           result |-> "", did |-> <<>>]

Idle == [op |-> "none", project_id |-> None, project_data |-> ProjectDataWith(0),
         pc |-> "idle", result |-> "", did |-> <<>>,
         prev |-> NoInit, store0 |-> NoneV, file0 |-> NoneV, answer |-> NoneV]

Store(p, chunks) == [owner |-> p, chunks |-> chunks]

\* A request whose handler has started and not yet returned.
Active(r) == reqs[r].pc \notin {"idle", "queued"}

\* The event loop gives a new request the first free handler slot.
FirstFree(r) == reqs[r].pc = "idle" /\ \A q \in 1..(r - 1) : Active(q)

\* Handlers run on worker threads (plain "def" endpoints): nothing waits.
LoopFreeThreaded == TRUE

\* Both endpoints are "async def" and call the synchronous service functions
\* without awaiting: the event loop starts a handler only when no other runs.
LoopFree == \A q \in Reqs : ~Active(q)

Init ==
  /\ _vector_store = NoneV
  /\ _rag_chain = NoneV
  /\ _embeddings = 0
  /\ _current_project_id = None
  /\ disk = [p \in Projects |-> NoneV]
  /\ env \in EnvSet
  /\ reqs = [r \in Reqs |-> Idle]
  /\ last_call = Idle
  /\ initialized = {}
  /\ data = ProjectDataWith(0)
  /\ documents = NoneV

\* ------------------------------------------------------------------------
\* The event loop starts a handler; a handler returns
\* ------------------------------------------------------------------------
PrevInit ==
  IF last_call.op = "init"
    THEN [project_id |-> last_call.project_id, project_data |-> last_call.project_data,
          result |-> last_call.result, did |-> last_call.did]
    ELSE NoInit

\* The event loop runs the handler of request r, once no other handler runs.
\* An initialize call notes what it finds: the resident store and P's directory.
Handle(r, op, p, d) ==
  /\ LoopFree
  /\ reqs' = [reqs EXCEPT ![r] =
       IF op = "init"
         THEN [Idle EXCEPT !.op = op, !.project_id = p, !.project_data = d,
                           !.pc = "i_key", !.prev = PrevInit,
                           !.store0 = _vector_store, !.file0 = disk[db_path(p)]]
         ELSE [Idle EXCEPT !.op = op, !.project_id = p, !.pc = "q_check"]]
  /\ last_call' = Idle
  /\ UNCHANGED <<cache, disk, env, chunker, initialized>>

\* POST /initialize: initialize_rag(request.project_id, request.project_data)
DispatchInitialize(r, p, d) ==
  /\ FirstFree(r)
  /\ Handle(r, "init", p, d)

\* POST /query: query_rag(request.question); request.project_id is not passed on
DispatchQuery(r, p) ==
  /\ FirstFree(r)
  /\ Handle(r, "query", p, ProjectDataWith(0))

\* A request that arrived while another handler ran gets its turn.
StartQueued(r) ==
  /\ reqs[r].pc = "queued"
  /\ Handle(r, reqs[r].op, reqs[r].project_id, reqs[r].project_data)

\* The handler of request r returns or raises: the response is recorded.
Returns(r, result) ==
  /\ reqs' = [reqs EXCEPT ![r] = Idle]
  /\ last_call' = [reqs[r] EXCEPT !.pc = "done", !.result = result]
  /\ initialized' = IF reqs[r].op = "init" /\ result = "ok"
                      THEN initialized \cup {reqs[r].project_id}
                      ELSE initialized

Goto(r, pc) ==
  /\ reqs' = [reqs EXCEPT ![r].pc = pc]
  /\ UNCHANGED <<last_call, initialized>>

GotoDid(r, pc, what) ==
  /\ reqs' = [reqs EXCEPT ![r].pc = pc, ![r].did = Append(reqs[r].did, what)]
  /\ UNCHANGED <<last_call, initialized>>

\* ------------------------------------------------------------------------
\* initialize_rag(project_id, project_data), step by step
\* ------------------------------------------------------------------------
\* The reuse test with the store test inverted ("is None" for "is not None").
AlreadyInitializedInverted(p) ==
  /\ _current_project_id = p
  /\ _vector_store = NoneV
  /\ _embeddings # 0

\* The early-return test: "already initialized for this project".
\* (_model_changed is never set on the embeddings object.)
AlreadyInitialized(p) ==
  /\ _current_project_id = p
  /\ _vector_store # NoneV
  /\ _embeddings # 0

\* if not os.getenv("OPENROUTER_API_KEY"): raise ValueError
InitCheckKey(r) ==
  /\ reqs[r].pc = "i_key"
  /\ IF env.api_key
       THEN Goto(r, "i_cached")
       ELSE Returns(r, "NoApiKey")
  /\ UNCHANGED <<cache, disk, env, chunker>>

\* The reuse check, then _current_project_id = project_id.
InitCheckCached(r) ==
  /\ reqs[r].pc = "i_cached"
  /\ IF AlreadyInitialized(reqs[r].project_id)
       THEN /\ Returns(r, "ok")
            /\ UNCHANGED _current_project_id
       ELSE /\ _current_project_id' = reqs[r].project_id
            /\ Goto(r, "i_chunks")
  /\ UNCHANGED <<_vector_store, _rag_chain, _embeddings, disk, env, chunker>>

\* documents = create_document_chunks(project_data); empty: raise ValueError
InitChunks(r) ==
  /\ reqs[r].pc = "i_chunks"
  /\ IF ChunksRaise(reqs[r].project_data)
       THEN Returns(r, "ChunkingFailed")
       ELSE IF create_document_chunks(reqs[r].project_data) = <<>>
         THEN Returns(r, "EmptyCorpus")
         ELSE Goto(r, "i_emb")
  /\ UNCHANGED <<cache, disk, env, chunker>>

\* The embedding model loaded anew by every call.
InitEmbeddingsReloading(r) ==
  /\ reqs[r].pc = "i_emb"
  /\ \E loaded \in BOOLEAN :
       IF loaded
         THEN /\ _embeddings' = (_embeddings % 2) + 1
              /\ GotoDid(r, "i_branch", "embed_load")
         ELSE /\ Returns(r, "EmbeddingUnavailable")
              /\ UNCHANGED _embeddings
  /\ UNCHANGED <<_vector_store, _rag_chain, _current_project_id, disk, env, chunker>>

\* if _embeddings is None: _embeddings = HuggingFaceEmbeddings(...), which may raise
InitEmbeddings(r) ==
  /\ reqs[r].pc = "i_emb"
  /\ IF _embeddings # 0
       THEN /\ Goto(r, "i_branch")
            /\ UNCHANGED _embeddings
       ELSE \E loaded \in BOOLEAN :
              IF loaded
                THEN /\ _embeddings' = 1
                     /\ GotoDid(r, "i_branch", "embed_load")
                ELSE /\ Returns(r, "EmbeddingUnavailable")
                     /\ UNCHANGED _embeddings
  /\ UNCHANGED <<_vector_store, _rag_chain, _current_project_id, disk, env, chunker>>

\* if os.path.exists(db_path/index.faiss) and not force_rebuild: load, else build
InitBranch(r) ==
  /\ reqs[r].pc = "i_branch"
  /\ Goto(r, IF disk[db_path(reqs[r].project_id)] # NoneV /\ ~env.force_rebuild
               THEN "i_load" ELSE "i_build")
  /\ UNCHANGED <<cache, disk, env, chunker>>

\* The load without its try/except: a failed load leaves initialize_rag.
InitLoadRaises(r) ==
  LET p == reqs[r].project_id
      file == Get(disk[db_path(p)])
  IN  /\ reqs[r].pc = "i_load"
      /\ IF file.valid
           THEN /\ _vector_store' = Some(Store(p, file.chunks))
                /\ GotoDid(r, "i_llm", "load")
           ELSE /\ reqs' = [reqs EXCEPT ![r] = Idle]
                /\ last_call' = [reqs[r] EXCEPT !.pc = "done", !.result = "CorruptIndex",
                                                !.did = Append(reqs[r].did, "load_failed")]
                /\ UNCHANGED <<_vector_store, initialized>>
      /\ UNCHANGED <<_rag_chain, _embeddings, _current_project_id, disk, env, chunker>>

\* FAISS.load_local(db_path); any exception is caught and leads to the rebuild
InitLoad(r) ==
  LET p == reqs[r].project_id
      file == Get(disk[db_path(p)])
  IN  /\ reqs[r].pc = "i_load"
      /\ IF file.valid
           THEN /\ _vector_store' = Some(Store(p, file.chunks))
                /\ GotoDid(r, "i_llm", "load")
           ELSE /\ GotoDid(r, "i_build", "load_failed")
                /\ UNCHANGED _vector_store
      /\ UNCHANGED <<_rag_chain, _embeddings, _current_project_id, disk, env, chunker>>

\* The build adding its documents to the resident store instead of replacing it.
InitBuildMerging(r) ==
  /\ reqs[r].pc = "i_build"
  /\ \E built \in BOOLEAN :
       IF built
         THEN /\ _vector_store' =
                   Some(Store(reqs[r].project_id,
                              (IF _vector_store = NoneV THEN <<>>
                                 ELSE Get(_vector_store).chunks)
                              \o create_document_chunks(reqs[r].project_data)))
              /\ GotoDid(r, "i_save", "build")
         ELSE /\ Returns(r, "BuildFailed")
              /\ UNCHANGED _vector_store
  /\ UNCHANGED <<_rag_chain, _embeddings, _current_project_id, disk, env, chunker>>

\* _vector_store = FAISS.from_documents(documents, _embeddings), which may raise
InitBuild(r) ==
  /\ reqs[r].pc = "i_build"
  /\ \E built \in BOOLEAN :
       IF built
         THEN /\ _vector_store' = Some(Store(reqs[r].project_id,
                                   create_document_chunks(reqs[r].project_data)))
              /\ GotoDid(r, "i_save", "build")
         ELSE /\ Returns(r, "BuildFailed")
              /\ UNCHANGED _vector_store
  /\ UNCHANGED <<_rag_chain, _embeddings, _current_project_id, disk, env, chunker>>

\* _vector_store.save_local(folder_path=db_path) writes index.faiss and then
\* index.pkl straight into db_path: between the two the directory holds a torn index.
Torn == Some([valid |-> FALSE, chunks |-> <<>>])

Saved(chunks) == Some([valid |-> TRUE, chunks |-> chunks])

SaveWrite(p) == [disk EXCEPT ![db_path(p)] = Torn]

InitSaveWrite(r) ==
  /\ reqs[r].pc = "i_save"
  /\ disk' = SaveWrite(reqs[r].project_id)
  /\ Goto(r, "i_save_end")
  /\ UNCHANGED <<cache, env, chunker>>

\* save_local completes, or raises partway (the exception leaves initialize_rag)
InitSaveFinish(r) ==
  /\ reqs[r].pc = "i_save_end"
  /\ \E saved \in BOOLEAN :
       IF saved
         THEN /\ disk' = [disk EXCEPT ![db_path(reqs[r].project_id)] =
                            Saved(Get(_vector_store).chunks)]
              /\ GotoDid(r, "i_llm", "persist")
         ELSE /\ Returns(r, "PersistFailed")
              /\ UNCHANGED disk
  /\ UNCHANGED <<cache, env, chunker>>

\* retriever = _vector_store.as_retriever(k=3); llm = ChatOpenAI(...), which may
\* raise; _rag_chain = retriever | format_docs | prompt | llm | parser
InitChain(r) ==
  /\ reqs[r].pc = "i_llm"
  /\ \E made \in BOOLEAN :
       IF made
         THEN /\ _rag_chain' = Some([retriever |-> Get(_vector_store)])
              /\ Returns(r, "ok")
         ELSE /\ Returns(r, "LLMInitFailed")
              /\ UNCHANGED _rag_chain
  /\ UNCHANGED <<_vector_store, _embeddings, _current_project_id, disk, env, chunker>>

\* ------------------------------------------------------------------------
\* query_rag(question), called by the /query handler with request.question only
\* ------------------------------------------------------------------------
Min(a, b) == IF a < b THEN a ELSE b

\* A retrieval that gives the best match only.
RetrievalsBest(store, k) ==
  {idx \in SUBSET (1..Len(store.chunks)) :
     Cardinality(idx) = Min(1, Len(store.chunks))}

\* The results a top-k retrieval over a store may give: k chunks of it, or all
\* of them when it holds fewer (which ones depends on the embedding).
Retrievals(store, k) ==
  {idx \in SUBSET (1..Len(store.chunks)) :
     Cardinality(idx) = Min(k, Len(store.chunks))}

\* if _rag_chain is None: raise ValueError("RAG system not initialized")
QueryCheck(r) ==
  /\ reqs[r].pc = "q_check"
  /\ IF _rag_chain = NoneV
       THEN Returns(r, "NotInitialized")
       ELSE Goto(r, "q_invoke")
  /\ UNCHANGED <<cache, disk, env, chunker>>

\* The retrieval with the request's project recorded as the current one.
QueryRetrieveRecording(r) ==
  /\ reqs[r].pc = "q_invoke"
  /\ \E idx \in Retrievals(Get(_rag_chain).retriever, TopK) :
       reqs' = [reqs EXCEPT ![r].pc = "q_llm",
                            ![r].answer = Some([owner |-> Get(_rag_chain).retriever.owner,
                                                chunks |-> Get(_rag_chain).retriever.chunks,
                                                docs |-> idx])]
  /\ _current_project_id' = reqs[r].project_id
  /\ UNCHANGED <<_vector_store, _rag_chain, _embeddings, disk, env, chunker,
                 last_call, initialized>>

\* _rag_chain.invoke(question): the chain's retriever fetches the context
QueryRetrieve(r) ==
  /\ reqs[r].pc = "q_invoke"
  /\ \E idx \in Retrievals(Get(_rag_chain).retriever, TopK) :
       reqs' = [reqs EXCEPT ![r].pc = "q_llm",
                            ![r].answer = Some([owner |-> Get(_rag_chain).retriever.owner,
                                                chunks |-> Get(_rag_chain).retriever.chunks,
                                                docs |-> idx])]
  /\ UNCHANGED <<cache, disk, env, chunker, last_call, initialized>>

\* The model call with a canned answer returned when it raises.
QueryModelFallback(r) ==
  /\ reqs[r].pc = "q_llm"
  /\ \E answered \in BOOLEAN :
       /\ reqs' = [reqs EXCEPT ![r] = Idle]
       /\ last_call' = [reqs[r] EXCEPT !.pc = "done", !.result = "ok",
                          !.did = Append(@, IF answered THEN "llm" ELSE "llm_error")]
       /\ UNCHANGED initialized
  /\ UNCHANGED <<cache, disk, env, chunker>>

\* the model call, made once, returns the answer, which query_rag returns, or
\* raises: except Exception -> raise Exception, which the endpoint turns into
\* a 500 response without an answer
QueryModel(r) ==
  /\ reqs[r].pc = "q_llm"
  /\ \E answered \in BOOLEAN :
       /\ reqs' = [reqs EXCEPT ![r] = Idle]
       /\ last_call' = IF answered
                         THEN [reqs[r] EXCEPT !.pc = "done", !.result = "ok",
                                 !.did = Append(@, "llm")]
                         ELSE [reqs[r] EXCEPT !.pc = "done", !.result = "ModelUnavailable",
                                 !.did = Append(@, "llm_error"), !.answer = NoneV]
       /\ UNCHANGED initialized
  /\ UNCHANGED <<cache, disk, env, chunker>>

\* ------------------------------------------------------------------------
\* The process restarts
\* ------------------------------------------------------------------------
\* A new process: the module globals are None again, rag_db stays as it is.
Restart ==
  /\ LoopFree
  /\ _vector_store' = NoneV
  /\ _rag_chain' = NoneV
  /\ _embeddings' = 0
  /\ _current_project_id' = None
  /\ reqs' = [r \in Reqs |-> Idle]
  /\ last_call' = Idle
  /\ initialized' = {}
  /\ UNCHANGED <<disk, env, chunker>>

Next ==
  \/ \E r \in Reqs, p \in Projects, d \in DataSet : DispatchInitialize(r, p, d)
  \/ \E r \in Reqs, p \in Projects : DispatchQuery(r, p)
  \/ \E r \in Reqs : InitCheckKey(r)
  \/ \E r \in Reqs : InitCheckCached(r)
  \/ \E r \in Reqs : InitChunks(r)
  \/ \E r \in Reqs : InitEmbeddings(r)
  \/ \E r \in Reqs : InitBranch(r)
  \/ \E r \in Reqs : InitLoad(r)
  \/ \E r \in Reqs : InitBuild(r)
  \/ \E r \in Reqs : InitSaveWrite(r)
  \/ \E r \in Reqs : InitSaveFinish(r)
  \/ \E r \in Reqs : InitChain(r)
  \/ \E r \in Reqs : QueryCheck(r)
  \/ \E r \in Reqs : QueryRetrieve(r)
  \/ \E r \in Reqs : QueryModel(r)
  \/ Restart

Spec == Init /\ [][Next]_vars

\* ------------------------------------------------------------------------
\* Concurrent requests: a batch arrives at a fresh process at once, over
\* whatever rag_db an earlier run left, and the event loop works it off.
\* ------------------------------------------------------------------------
Queued ==
  {[Idle EXCEPT !.op = "init", !.project_id = p, !.project_data = d, !.pc = "queued"] :
     p \in Projects, d \in DataSet}
  \cup {[Idle EXCEPT !.op = "query", !.project_id = p, !.pc = "queued"] : p \in Projects}

InitLoop ==
  /\ _vector_store = NoneV
  /\ _rag_chain = NoneV
  /\ _embeddings = 0
  /\ _current_project_id = None
  /\ disk \in [Projects -> {NoneV, Torn, Saved(create_document_chunks(ProjectDataWith(1)))}]
  /\ env \in {e \in EnvSet : e.api_key}
  /\ reqs \in [Reqs -> Queued]
  /\ last_call = Idle
  /\ initialized = {}
  /\ data = ProjectDataWith(0)
  /\ documents = NoneV

NextLoop ==
  \/ \E r \in Reqs : StartQueued(r)
  \/ \E r \in Reqs : InitCheckKey(r)
  \/ \E r \in Reqs : InitCheckCached(r)
  \/ \E r \in Reqs : InitChunks(r)
  \/ \E r \in Reqs : InitEmbeddings(r)
  \/ \E r \in Reqs : InitBranch(r)
  \/ \E r \in Reqs : InitLoad(r)
  \/ \E r \in Reqs : InitBuild(r)
  \/ \E r \in Reqs : InitSaveWrite(r)
  \/ \E r \in Reqs : InitSaveFinish(r)
  \/ \E r \in Reqs : InitChain(r)
  \/ \E r \in Reqs : QueryCheck(r)
  \/ \E r \in Reqs : QueryRetrieve(r)
  \/ \E r \in Reqs : QueryModel(r)

SpecLoop == InitLoop /\ [][NextLoop]_vars

\* ------------------------------------------------------------------------
\* The chunk builder alone, over bounded ProjectData
\* ------------------------------------------------------------------------
StoryIds == <<"s1", "s2", "s3">>
StoryTitles == <<"Login", "Logout", "Reset">>
FeatureTitles == <<"Password", "Token", "Captcha">>

\* An id no module (no story) carries.
Dangling == "x9"

\* The sequences of at most n items, the i-th drawn from the set at[i].
ListsOf(at, n) ==
  UNION {{s \in [1..k -> UNION {at[i] : i \in 1..k}] : \A i \in 1..k : s[i] \in at[i]}
         : k \in 0..n}

\* The first item of each list varies in every way, the later ones in the
\* ways that matter beside it.
ModulesAt(i) ==
  {[id |-> a, module_name |-> n] :
     a \in {ModuleIds[i], Absent},
     n \in {ModuleNames[i], Absent} \cup (IF i = 1 THEN {Null} ELSE {})}

StoriesAt(i) ==
  {[id |-> a, module_id |-> m, title |-> StoryTitles[i]] :
     a \in {StoryIds[i]} \cup (IF i = 1 THEN {Absent} ELSE {}),
     m \in {ModuleIds[1], Dangling} \cup (IF i = 1 THEN {Absent} ELSE {})}

FeaturesAt(i) ==
  {[user_story_id |-> u, title |-> FeatureTitles[i]] :
     u \in {StoryIds[1], Dangling} \cup (IF i = 1 THEN {Absent} ELSE {})}

ModuleLists == {PyNull} \cup {PyList(s) : s \in ListsOf([i \in 1..MaxModules |-> ModulesAt(i)], MaxModules)}
StoryLists == {PyNull} \cup {PyList(s) : s \in ListsOf([i \in 1..MaxStories |-> StoriesAt(i)], MaxStories)}
FeatureLists == {PyNull} \cup {PyList(s) : s \in ListsOf([i \in 1..MaxFeatures |-> FeaturesAt(i)], MaxFeatures)}

\* Modules, stories and features in every combination, no other facet.
HierarchyInputs ==
  {[ProjectDataWith(0) EXCEPT !.modules = m, !.user_stories = u, !.features = f] :
     m \in ModuleLists, u \in StoryLists, f \in FeatureLists}

Projs == {PyEmpty, PyNull, PyDict([name |-> "Shop"]), PyDict([name |-> Absent])}
ProjInfos == {PyEmpty, PyDict([vision |-> "Sell"])}

Rules ==
  {[name |-> "Audit", applicableTo |-> a] :
     a \in {PyAbsent, PyNull, PyEmpty, PyList(<<"Auth">>)}}

CategoryLists == {PyAbsent, PyNull, PyEmpty} \cup {PyList(<<c>>) : c \in Rules}

RuleSets ==
  {PyEmpty, PyNull}
  \cup {PyDict([categories |-> c, config |-> PyAbsent]) : c \in CategoryLists}
  \cup {PyDict([categories |-> PyAbsent, config |-> g]) :
          g \in {PyNull, PyEmpty}
                \cup {PyDict([categories |-> c]) : c \in CategoryLists}}

StackItems == <<[category |-> "backend", technologies |-> <<"FastAPI">>]>>

TechStacks ==
  {PyEmpty, PyNull}
  \cup {PyDict([tech_stack |-> x, items |-> i]) :
          x \in {PyAbsent, PyNull, PyEmpty, PyDict(StackItems)},
          i \in {<<>>, StackItems}}

Uiux == {PyEmpty, PyNull}
        \cup {PyDict([guidelines |-> g]) : g \in {"Use a grid", Absent, Null}}

\* The other facets in every combination, over a few hierarchies.
FacetInputs ==
  {[modules |-> m, user_stories |-> h.u, features |-> h.f,
    project |-> p, project_information |-> i, business_rules |-> b,
    tech_stack |-> t, uiux_guidelines |-> x] :
     m \in {PyEmpty, PyNull, PyList(<<Module(1)>>)},
     h \in {[u |-> PyEmpty, f |-> PyEmpty],
            [u |-> PyList(<<[id |-> StoryIds[1], module_id |-> ModuleIds[1],
                             title |-> StoryTitles[1]]>>),
             f |-> PyList(<<[user_story_id |-> StoryIds[1],
                             title |-> FeatureTitles[1]]>>)]},
     p \in Projs, i \in ProjInfos, b \in RuleSets, t \in TechStacks, x \in Uiux}

Inputs == HierarchyInputs \cup FacetInputs

Raised == [raised |-> TRUE, chunks |-> <<>>]
Returned(chunks) == [raised |-> FALSE, chunks |-> chunks]

InitBuilder ==
  /\ _vector_store = NoneV
  /\ _rag_chain = NoneV
  /\ _embeddings = 0
  /\ _current_project_id = None
  /\ disk = [p \in Projects |-> NoneV]
  /\ env = [api_key |-> TRUE, force_rebuild |-> FALSE]
  /\ reqs = [r \in Reqs |-> Idle]
  /\ last_call = Idle
  /\ initialized = {}
  /\ data \in Inputs
  /\ documents = NoneV

\* documents = create_document_chunks(data)
CallBuilder ==
  /\ documents = NoneV
  /\ documents' = Some(IF ChunksRaise(data)
                         THEN Raised
                         ELSE Returned(create_document_chunks(data)))
  /\ UNCHANGED <<cache, disk, env, reqs, last_call, initialized, data>>

NextBuilder == CallBuilder

SpecBuilder == InitBuilder /\ [][NextBuilder]_vars

\* ------------------------------------------------------------------------
\* Properties
\* ------------------------------------------------------------------------
In(what, did) == \E i \in DOMAIN did : did[i] = what

Count(what, did) == Cardinality({i \in DOMAIN did : did[i] = what})

\* The store a build of project p from data d gives.
Built(p, d) == Some(Store(p, create_document_chunks(d)))

InitDone == last_call.op = "init" /\ last_call.pc = "done"

QueryDone == last_call.op = "query" /\ last_call.pc = "done"

\* The initialize call that returned last came right after a successful
\* initialize call for the same project.
AfterOkInitOfSameProject ==
  /\ InitDone
  /\ last_call.prev.result = "ok"
  /\ last_call.prev.project_id = last_call.project_id

\* The total the module roster of the resident index states (0: no roster).
RosterTotal(o) ==
  IF o # NoneV /\ Get(o).chunks # <<>> /\ Get(o).chunks[1].source = "Module List Overview"
    THEN Get(o).chunks[1].total
    ELSE 0

\* C1: once initialize(P, D1) has succeeded, a successful initialize(P, D2) with
\* D2 different from D1 rebuilds: the resident index, and the index the answer
\* chain retrieves from, hold the chunks of D2, and the module roster states
\* D2's module count.
C1_StalenessRebuild ==
  (/\ AfterOkInitOfSameProject
   /\ last_call.result = "ok"
   /\ last_call.prev.project_data # last_call.project_data
   /\ create_document_chunks(last_call.project_data) # <<>>)
  => /\ _vector_store = Built(last_call.project_id, last_call.project_data)
     /\ _rag_chain # NoneV
     /\ Some(Get(_rag_chain).retriever) = _vector_store
     /\ RosterTotal(_vector_store) = Len(Items(last_call.project_data.modules))

\* C2: a query for a project that was initialized (and whose index was built
\* and saved) is answered from that project's own index, whichever other
\* projects were initialized since.
C2_NoCrossProjectEviction ==
  (/\ QueryDone
   /\ last_call.result = "ok"
   /\ last_call.project_id \in initialized
   /\ disk[last_call.project_id] # NoneV
   /\ Get(disk[last_call.project_id]).valid)
  => Get(last_call.answer).owner = last_call.project_id

\* C3: a query for a project no initialize call has succeeded for fails with
\* NotInitialized, also when another project has been initialized.
C3_NotInitialized ==
  (QueryDone /\ last_call.project_id \notin initialized)
  => last_call.result = "NotInitialized"

\* C4: an initialize call that repeats, right after it, a successful initialize
\* call (same project, same data) succeeds and performs no build, load or
\* persist: the resident index and the project's directory are what they were.
\* The two calls together construct the index at most once, and exactly once
\* (one build or one load) when the first call did not itself reuse an index.
C4_Idempotent ==
  (/\ AfterOkInitOfSameProject
   /\ last_call.prev.project_data = last_call.project_data)
  => /\ last_call.result = "ok"
     /\ last_call.did = <<>>
     /\ _vector_store = last_call.store0
     /\ disk[last_call.project_id] = last_call.file0
     /\ LET both == last_call.prev.did \o last_call.did
        IN  /\ Count("build", both) <= 1
            /\ Count("build", both) + Count("load", both) <= 1
            /\ last_call.prev.did # <<>>
                 => Count("build", both) + Count("load", both) = 1

\* A repeated call after a first call that built the index.
C4_Witness ==
  /\ AfterOkInitOfSameProject
  /\ last_call.prev.project_data = last_call.project_data
  /\ In("build", last_call.prev.did)
  /\ last_call.result = "ok"

\* C5: with RAG_FORCE_REBUILD set, an initialize call that succeeds has built
\* a fresh index from its own project_data, also when it follows a successful
\* initialize call that left an index resident.
C5_ForcedRebuild ==
  (/\ InitDone
   /\ env.force_rebuild
   /\ last_call.prev.result = "ok"
   /\ last_call.result = "ok")
  => /\ In("build", last_call.did)
     /\ _vector_store = Built(last_call.project_id, last_call.project_data)

\* The initialize calls in progress, and the one that returned last.
InitCalls ==
  {reqs[r] : r \in {q \in Reqs : Active(q) /\ reqs[q].op = "init"}}
  \cup (IF InitDone THEN {last_call} ELSE {})

\* The initialize calls in flight for project p, and those building or saving.
InFlight(p) ==
  {r \in Reqs : Active(r) /\ reqs[r].op = "init" /\ reqs[r].project_id = p}

Building(p) ==
  {r \in InFlight(p) : reqs[r].pc \in {"i_build", "i_save", "i_save_end"}}

\* C6: the initialize calls for one project id are serialized: at most one of
\* them is in flight at any time, so at most one build and one save to that
\* project's directory.
C6_OneBuildInFlight ==
  \A p \in Projects :
    /\ Cardinality(InFlight(p)) <= 1
    /\ Cardinality(Building(p)) <= 1

\* One call saves P's index while another initialize call for P waits.
C6_Witness ==
  \E p \in Projects, r, q \in Reqs :
    /\ r \in Building(p)
    /\ reqs[r].pc = "i_save_end"
    /\ q # r
    /\ reqs[q].op = "init"
    /\ reqs[q].project_id = p
    /\ reqs[q].pc = "queued"

\* C7: an initialize call whose project_data yields no chunks fails with
\* EmptyCorpus and builds, loads and persists nothing, in every cache state
\* (here: as the first call, or right after a successful initialize call).
C7_EmptyCorpus ==
  (/\ InitDone
   /\ env.api_key
   /\ last_call.prev.result \in {"", "ok"}
   /\ create_document_chunks(last_call.project_data) = <<>>)
  => /\ last_call.result = "EmptyCorpus"
     /\ last_call.did = <<>>
     /\ _vector_store = last_call.store0
     /\ disk[last_call.project_id] = last_call.file0

\* An initialize call that got past the choice between load and build.
PassedBranch(c) ==
  \/ c.pc \in {"i_load", "i_build", "i_save", "i_save_end", "i_llm"}
  \/ /\ c.pc = "done"
     /\ \/ c.result \in {"BuildFailed", "PersistFailed", "LLMInitFailed"}
        \/ c.result = "ok" /\ c.did # <<>>

\* C8: an initialize call that finds a persisted index for its project, with no
\* index resident for it and no forced rebuild, attempts the load; a failed
\* load is followed by a build from the call's own chunks and a save; the call
\* never fails with the load's error, and succeeds once build, save and chain
\* succeed, leaving the rebuilt index resident and persisted.
C8_LoadFallback ==
  \A c \in InitCalls :
    /\ (c.file0 # NoneV /\ ~env.force_rebuild /\ PassedBranch(c))
         => \/ c.pc = "i_load"
            \/ In("load", c.did)
            \/ In("load_failed", c.did)
    /\ In("load_failed", c.did)
         => /\ ~In("load", c.did)
            /\ \/ c.pc = "i_build"
               \/ In("build", c.did)
               \/ c.result = "BuildFailed"
    /\ (c.pc = "done" /\ In("load_failed", c.did))
         => /\ c.result \in {"ok", "BuildFailed", "PersistFailed", "LLMInitFailed"}
            /\ (In("persist", c.did) /\ c.result # "LLMInitFailed") => c.result = "ok"
            /\ c.result = "ok"
                 => /\ In("build", c.did)
                    /\ In("persist", c.did)
                    /\ _vector_store = Built(c.project_id, c.project_data)
                    /\ disk[c.project_id] = Saved(create_document_chunks(c.project_data))

\* A call whose load failed and that succeeded all the same.
C8_Witness ==
  /\ InitDone
  /\ In("load_failed", last_call.did)
  /\ last_call.result = "ok"

\* C9: a save that fails partway leaves the project's previously valid
\* persisted index as it was.
C9_PersistKeepsOld ==
  (/\ InitDone
   /\ last_call.result = "PersistFailed"
   /\ last_call.file0 # NoneV
   /\ Get(last_call.file0).valid)
  => disk[last_call.project_id] = last_call.file0

\* The indexes resident for project p.
ResidentIndexes(p) ==
  IF _vector_store # NoneV /\ _current_project_id = p
    THEN {Get(_vector_store)}
    ELSE {}

\* C10: at most one index is resident per project id, and once the build of
\* an initialize call for P has completed the resident index is P's and holds
\* exactly the chunks of that build, whatever index was resident before.
C10_ReplacedWholesale ==
  /\ \A p \in Projects : Cardinality(ResidentIndexes(p)) <= 1
  /\ \A c \in InitCalls :
       In("build", c.did)
         => /\ _vector_store = Built(c.project_id, c.project_data)
            /\ ResidentIndexes(c.project_id) =
                 {Store(c.project_id, create_document_chunks(c.project_data))}

\* A build for P completed while another index built for P was resident.
C10_Witness ==
  /\ InitDone
  /\ In("build", last_call.did)
  /\ last_call.store0 # NoneV
  /\ Get(last_call.store0).owner = last_call.project_id
  /\ last_call.store0 # _vector_store

\* ------------------------------------------------------------------------
\* The chunk builder's claims
\* ------------------------------------------------------------------------
BuilderDone == documents # NoneV
Out == Get(documents)

OfKind(chunks, source) == SelectSeq(chunks, LAMBDA c : c.source = source)

ModuleCount == Len(Items(data.modules))

\* C11: for a ProjectData whose modules are a list of n items (and that has
\* no facet beside modules, stories and features), the builder emits exactly
\* n detail chunks and, when n > 0, exactly one module roster chunk whose
\* total is n (none when n = 0).
C11_RosterAndDetails ==
  (BuilderDone /\ data.modules.t # "null" /\ data \in HierarchyInputs) =>
    /\ ~Out.raised
    /\ Len(OfKind(Out.chunks, "Module Detail")) = ModuleCount
    /\ Len(OfKind(Out.chunks, "Module List Overview")) = IF ModuleCount > 0 THEN 1 ELSE 0
    /\ \A i \in DOMAIN Out.chunks :
         Out.chunks[i].source = "Module List Overview" => Out.chunks[i].total = ModuleCount

\* The end-to-end example: Auth with one story with one feature, Catalog
\* with no story, no other facet.
Example ==
  [ProjectDataWith(2) EXCEPT
     !.user_stories = PyList(<<[id |-> StoryIds[1], module_id |-> ModuleIds[1],
                               title |-> StoryTitles[1]]>>),
     !.features = PyList(<<[user_story_id |-> StoryIds[1],
                           title |-> FeatureTitles[1]]>>)]

ExampleRoster ==
  [source |-> "Module List Overview", type |-> "module_list",
   total |-> 2, names |-> <<"Auth", "Catalog">>]

ExampleAuth ==
  [source |-> "Module Detail", module_name |-> "Auth", module_id |-> ModuleIds[1],
   stories |-> <<[title |-> "Login", features |-> <<"Password">>]>>,
   sentinel |-> FALSE]

ExampleCatalog ==
  [source |-> "Module Detail", module_name |-> "Catalog", module_id |-> ModuleIds[2],
   stories |-> <<>>, sentinel |-> TRUE]

OrphanStory(us, d) ==
  /\ us.module_id # Absent
  /\ \A i \in DOMAIN Items(d.modules) : PyGet(Items(d.modules)[i].id) # us.module_id

OrphanFeature(f, d) ==
  /\ f.user_story_id # Absent
  /\ \A i \in DOMAIN Items(d.user_stories) :
       PyGet(Items(d.user_stories)[i].id) # f.user_story_id

\* The same ProjectData without its orphan stories and orphan features.
WithoutOrphans(d) ==
  [d EXCEPT
     !.user_stories =
       IF @.t = "null" THEN PyNull
       ELSE PyList(SelectSeq(Items(@), LAMBDA us : ~OrphanStory(us, d))),
     !.features =
       IF @.t = "null" THEN PyNull
       ELSE PyList(SelectSeq(Items(@), LAMBDA f : ~OrphanFeature(f, d)))]

\* The story entries of the detail chunks returned.
DetailStories ==
  UNION {{Out.chunks[i].stories[j] : j \in DOMAIN Out.chunks[i].stories} :
         i \in {k \in DOMAIN Out.chunks : Out.chunks[k].source = "Module Detail"}}

\* C13: a story whose module_id is carried by no module is listed in no
\* detail chunk, a feature whose user_story_id is carried by no story is
\* listed under no story, and neither makes the builder raise: it raises
\* exactly when it raises on the input without them.
C13_OrphansDropped ==
  BuilderDone =>
    /\ \A i \in DOMAIN Items(data.user_stories) :
         OrphanStory(Items(data.user_stories)[i], data) =>
           \A e \in DetailStories : e.title # Items(data.user_stories)[i].title
    /\ \A i \in DOMAIN Items(data.features) :
         OrphanFeature(Items(data.features)[i], data) =>
           \A e \in DetailStories : \A j \in DOMAIN e.features :
             e.features[j] # Items(data.features)[i].title
    /\ Out.raised <=> ChunksRaise(WithoutOrphans(data))

\* An orphan story beside a listed story whose only feature is an orphan.
C13_Witness ==
  /\ BuilderDone
  /\ ~Out.raised
  /\ \E i \in DOMAIN Items(data.user_stories) :
       OrphanStory(Items(data.user_stories)[i], data)
  /\ \E i \in DOMAIN Items(data.features) :
       OrphanFeature(Items(data.features)[i], data)
  /\ \E e \in DetailStories : e.features = <<>>

\* C14: the builder is total: whichever fields of the ProjectData are absent
\* or null, it returns a chunk sequence and does not raise.
C14_Total == BuilderDone => ~Out.raised

\* The kinds the claim expects of a ProjectData, in its order.
If(cond, source) == IF cond THEN <<source>> ELSE <<>>

ExpectedKinds(d) ==
  If(Truthy(d.modules), "Module List Overview")
  \o If(Truthy(d.user_stories), "User Stories List")
  \o If(Truthy(d.features), "Features List")
  \o [i \in DOMAIN Items(d.modules) |-> "Module Detail"]
  \o If(Truthy(d.project) \/ Truthy(d.project_information), "Project Overview")
  \o If(Truthy(d.business_rules), "Global Business Rules")
  \o If(Truthy(d.tech_stack), "Tech Stack")
  \o If(Truthy(d.uiux_guidelines), "UI/UX Guidelines")

\* C20: for every input the builder returns the kinds in the fixed order,
\* a kind being there exactly when its facet is present and non-empty, the
\* detail chunks in the input order of the modules.
C20_FixedOrder ==
  BuilderDone =>
    /\ ~Out.raised
    /\ [i \in DOMAIN Out.chunks |-> Out.chunks[i].source] = ExpectedKinds(data)
    /\ LET details == OfKind(Out.chunks, "Module Detail")
       IN  \A i \in DOMAIN details :
             details[i].module_id = PyGet(Items(data.modules)[i].id)

\* What holds of every input on which the builder returns.
OrderWhenReturned == (BuilderDone /\ Out.raised) \/ C20_FixedOrder

CountsWhenReturned == (BuilderDone /\ Out.raised) \/ C11_RosterAndDetails

\* ------------------------------------------------------------------------
\* The service's further claims
\* ------------------------------------------------------------------------
\* C15: a query whose model call raised returns an error to the caller, with
\* no answer, after that one model call.
C15_ModelErrorSurfaces ==
  (QueryDone /\ In("llm_error", last_call.did)) =>
    /\ last_call.result = "ModelUnavailable"
    /\ last_call.answer = NoneV
    /\ last_call.did = <<"llm_error">>

C15_Witness == QueryDone /\ In("llm_error", last_call.did)

\* Every request has returned.
Quiet == \A r \in Reqs : reqs[r].pc = "idle"

\* C16: initialize calls for different projects, in any interleaving, do not
\* disturb each other: once calls for both projects have succeeded, each
\* project has a resident index, which is its own, and the answer chain
\* paired with a project's id reads that project's index.
C16_ProjectsIndependent ==
  (Quiet /\ initialized = Projects) =>
    \A p \in Projects :
      /\ ResidentIndexes(p) # {}
      /\ \A s \in ResidentIndexes(p) : s.owner = p
      /\ (_current_project_id = p /\ _rag_chain # NoneV) =>
           Get(_rag_chain).retriever.owner = p

\* A step of a query handler.
QueryStep ==
  \E r \in Reqs : Active(r) /\ reqs[r].op = "query" /\ reqs'[r] # reqs[r]

\* C17: a query, whether it succeeds or fails, leaves the current project
\* id, the vector store, the embedding model, the answer chain and every
\* persisted index as they were.
C17_QueryReadOnly == [][QueryStep => UNCHANGED <<cache, disk>>]_vars

\* A query answered from a resident index.
C17_Witness ==
  /\ QueryDone
  /\ last_call.result = "ok"
  /\ _vector_store # NoneV
  /\ _rag_chain # NoneV

\* A step of an initialize handler that loads, builds or saves an index.
IndexStep ==
  \E r \in Reqs : InitLoad(r) \/ InitBuild(r) \/ InitSaveWrite(r) \/ InitSaveFinish(r)

\* C18: within a process the embedding model, once loaded, is neither
\* reloaded nor replaced, and every build and load of an index uses it.
C18_EmbeddingsLoadedOnce ==
  [][/\ (_embeddings # 0 /\ ~Restart) => UNCHANGED _embeddings
     /\ IndexStep => (_embeddings # 0 /\ UNCHANGED _embeddings)]_vars

\* An initialize call for another project than the one before it that built
\* or loaded its index without loading the embedding model.
C18_Witness ==
  /\ InitDone
  /\ last_call.result = "ok"
  /\ last_call.prev.result = "ok"
  /\ last_call.prev.project_id # last_call.project_id
  /\ ~In("embed_load", last_call.did)
  /\ In("build", last_call.did) \/ In("load", last_call.did)

\* C19: while the model call of a query is pending, a request for another
\* project (the server having room for one) can start.
C19_ModelCallDoesNotBlock ==
  \A r \in Reqs :
    (reqs[r].pc = "q_llm" /\ \E q \in Reqs : ~Active(q)) =>
      \E q \in Reqs, p \in Projects \ {reqs[r].project_id} :
        /\ ENABLED DispatchQuery(q, p)
        /\ \E d \in DataSet : ENABLED DispatchInitialize(q, p, d)

\* ------------------------------------------------------------------------
\* The detail chunks' listings
\* ------------------------------------------------------------------------
\* A reference equals an id: both are there and are the same.
SameId(ref, id) == ref # Absent /\ id # Absent /\ ref = id

\* What the detail chunk of a module is to list: the stories that reference
\* it, each with the features that reference the story, in input order.
ExpectedStories(module, d) ==
  LET mine == SelectSeq(Items(d.user_stories),
                        LAMBDA us : SameId(us.module_id, module.id))
  IN  [i \in DOMAIN mine |->
         [title |-> mine[i].title,
          features |->
            LET fs == SelectSeq(Items(d.features),
                                LAMBDA f : SameId(f.user_story_id, mine[i].id))
            IN  [j \in DOMAIN fs |-> fs[j].title]]]

\* C21: the detail chunk of each module lists exactly the stories whose
\* module_id equals the module's id, each with exactly the features whose
\* user_story_id equals the story's id, and carries the sentinel exactly
\* when it lists no story.
C21_DetailListsItsOwn ==
  (BuilderDone /\ ~Out.raised) =>
    LET details == OfKind(Out.chunks, "Module Detail")
    IN  \A i \in DOMAIN details :
          /\ details[i].stories = ExpectedStories(Items(data.modules)[i], data)
          /\ details[i].sentinel <=> (details[i].stories = <<>>)

\* Every module has an id, and so has every story.
IdsPresent ==
  /\ \A i \in DOMAIN Items(data.modules) : Items(data.modules)[i].id # Absent
  /\ \A i \in DOMAIN Items(data.user_stories) : Items(data.user_stories)[i].id # Absent

\* What holds of the listings when no id is missing.
ListingWhenIdsPresent == IdsPresent => C21_DetailListsItsOwn

\* C27: a story without module_id is listed in no detail chunk, and a
\* feature without user_story_id under no story, whether or not a module or
\* a story lacks its id too.
C27_AbsentKeysDoNotMatch ==
  (BuilderDone /\ ~Out.raised) =>
    /\ \A i \in DOMAIN Items(data.user_stories) :
         Items(data.user_stories)[i].module_id = Absent =>
           \A e \in DetailStories : e.title # Items(data.user_stories)[i].title
    /\ \A i \in DOMAIN Items(data.features) :
         Items(data.features)[i].user_story_id = Absent =>
           \A e \in DetailStories : \A j \in DOMAIN e.features :
             e.features[j] # Items(data.features)[i].title

\* ------------------------------------------------------------------------
\* Retrieval and the cache's invariants
\* ------------------------------------------------------------------------
\* The retrievals made: by the query that returned last with an answer, and
\* by the queries waiting for the model.
Retrieved ==
  {Get(c.answer) : c \in {c \in {last_call} \cup {reqs[r] : r \in Reqs} :
                           c.op = "query" /\ c.answer # NoneV}}

EarlyReturn == InitDone /\ last_call.result = "ok" /\ last_call.did = <<>>

\* C23: between any two handlers, also after an initialize call that failed
\* partway, the current project id and the resident vector store belong to
\* the same project; so an initialize call that takes the early return finds
\* its own project's index resident.
C23_IdMatchesStore ==
  LoopFree =>
    /\ (_current_project_id # None /\ _vector_store # NoneV) =>
         Get(_vector_store).owner = _current_project_id
    /\ EarlyReturn =>
         (_vector_store # NoneV /\ Get(_vector_store).owner = last_call.project_id)

\* C24: an initialize call that succeeds for a project with no index
\* resident for it, and whose persisted index was built from other data than
\* the call's, leaves the chunks of the call's own data resident.
C24_PersistedNotStale ==
  (/\ InitDone
   /\ last_call.result = "ok"
   /\ last_call.store0 = NoneV \/ Get(last_call.store0).owner # last_call.project_id
   /\ last_call.file0 # NoneV
   /\ Get(last_call.file0).valid
   /\ Get(last_call.file0).chunks # create_document_chunks(last_call.project_data))
  => _vector_store = Built(last_call.project_id, last_call.project_data)

\* C25: between any two handlers, also after a failed initialize call, an
\* answer chain comes with a vector store, an embedding model and a current
\* project id, and its retriever reads the resident vector store.
C25_ChainReadsResidentStore ==
  (LoopFree /\ _rag_chain # NoneV) =>
    /\ _vector_store # NoneV
    /\ _embeddings # 0
    /\ _current_project_id # None
    /\ Get(_rag_chain).retriever = Get(_vector_store)


\* ------------------------------------------------------------------------
\* Project ids that are paths: initialize calls alone, on a fresh process
\* over an empty rag_db, with ids drawn from ProjectIds
\* ------------------------------------------------------------------------
InitPaths ==
  /\ _vector_store = NoneV
  /\ _rag_chain = NoneV
  /\ _embeddings = 0
  /\ _current_project_id = None
  /\ disk = [p \in Projects |-> NoneV]
  /\ env \in {e \in EnvSet : e.api_key}
  /\ reqs = [r \in Reqs |-> Idle]
  /\ last_call = Idle
  /\ initialized = {}
  /\ data = ProjectDataWith(0)
  /\ documents = NoneV

\* Two versions of a project's data.
PathData == {ProjectDataWith(1), ProjectDataWith(2)}

NextPaths ==
  \/ \E r \in Reqs, p \in ProjectIds, d \in PathData : DispatchInitialize(r, p, d)
  \/ \E r \in Reqs : InitCheckKey(r)
  \/ \E r \in Reqs : InitCheckCached(r)
  \/ \E r \in Reqs : InitChunks(r)
  \/ \E r \in Reqs : InitEmbeddings(r)
  \/ \E r \in Reqs : InitBranch(r)
  \/ \E r \in Reqs : InitLoad(r)
  \/ \E r \in Reqs : InitBuild(r)
  \/ \E r \in Reqs : InitSaveWrite(r)
  \/ \E r \in Reqs : InitSaveFinish(r)
  \/ \E r \in Reqs : InitChain(r)

SpecPaths == InitPaths /\ [][NextPaths]_vars

\* A step of the initialize call for project id p.
InitializeStep(p) ==
  \E r \in Reqs : /\ Active(r)
                  /\ reqs[r].op = "init"
                  /\ reqs[r].project_id = p
                  /\ reqs'[r] # reqs[r]

\* C26: initialize(P, .) writes only to P's own storage location: no step of an
\* initialize call for P, whether the call succeeds, fails or returns early,
\* changes the persisted index of a project Q other than P.
C26_WritesOwnLocationOnly ==
  [][\A p \in ProjectIds : InitializeStep(p) =>
       \A q \in Projects \ {p} : disk'[db_path(q)] = disk[db_path(q)]]_vars

\* The same over ids that are plain names: each has a directory of its own.
WritesOwnLocationWhenPlain ==
  [][\A p \in Projects : InitializeStep(p) =>
       \A q \in Projects \ {p} : disk'[db_path(q)] = disk[db_path(q)]]_vars

====
